---------------------------- MODULE Spec2Model ----------------------------
(***************************************************************************)
(* A model of scraper/image.py (detect_format, download) and of the loop   *)
(* of scraper/crawlers.py that calls download for every image of a         *)
(* listing.                                                                 *)
(*                                                                          *)
(* Representation.  A Python str is a sequence of tokens, each token a TLA+ *)
(* string: one character ("a", "/", "."), or a literal of the program that  *)
(* is never split ("https://www.jawa.gg/", a UUID, image_url_prefix).       *)
(* bytes are sequences of integers 0..255.  A value that may be None is a   *)
(* record [tag, val] with tag "None" or "Some"; tag "Raise" stands for an   *)
(* exception leaving the expression instead of a value.                     *)
(***************************************************************************)
EXTENDS Integers, Sequences, FiniteSets, TLC

VARIABLES
    fs_dirs,      \* the directories that exist, each a tuple of path parts
    fs_files,     \* the regular files: records [path, data, of]
    pc,           \* per thread: where the thread is in download / the crawler loop
    image_url,    \* per thread: download's parameter
    response,     \* per thread: download's local, the requests.Response
    pil,          \* per thread: what Image.open would do with response.content
    exc,          \* per thread: the exception raised inside download's try block
    result,       \* per thread: download's return value
    images,       \* crawler: the image list of the listing, results replacing sources
    remaining,    \* crawler: images of the listing the loop has not reached yet
    calls,        \* number of download calls started (bounded by MaxCalls)
    fetches,      \* per thread: requests.get calls issued by the current call
    path,         \* per thread: the pc values the current call went through
    fs0,          \* per thread: <<fs_dirs, fs_files>> when the current call began
    prev,         \* per thread: the last finished call [url, result, outcome, fetches]
    downloaded_images,  \* the module-level set of image.py
    sn_data,      \* sniffer harness: detect_format's image_data argument
    sn_resp,      \* sniffer harness: detect_format's response argument
    sn_pil,       \* sniffer harness: what Image.open would do with sn_data
    sn_out        \* sniffer harness: detect_format's result, or NotCalled

vars == <<fs_dirs, fs_files, pc, image_url, response, pil, exc, result, images,
          remaining, calls, fetches, path, fs0, prev, downloaded_images,
          sn_data, sn_resp, sn_pil, sn_out>>

dl_vars == <<fs_dirs, fs_files, pc, image_url, response, pil, exc, result, images,
             remaining, calls, fetches, path, fs0, prev, downloaded_images>>

sn_vars == <<sn_data, sn_resp, sn_pil, sn_out>>

\* what a step inside download leaves alone: the crawler's loop and the harness
caller_vars == <<images, remaining, sn_data, sn_resp, sn_pil, sn_out>>

---------------------------------------------------------------------------
(* Bounds *)

\* download calls per run
MaxCalls == 2
\* images per listing
MaxImages == 2
\* longest byte buffer handed to detect_format by the sniffer harness
MaxBuf == 12

---------------------------------------------------------------------------
(* Python values *)

None == [tag |-> "None", val |-> <<>>]
Some(v) == [tag |-> "Some", val |-> v]
Raise(e) == [tag |-> "Raise", val |-> <<e>>]

Min(a, b) == IF a < b THEN a ELSE b

\* s.startswith(p), for str and bytes
StartsWith(s, p) == Len(s) >= Len(p) /\ SubSeq(s, 1, Len(p)) = p

\* s[lo:hi] with 0 <= lo <= hi, clamped to the length as Python does
Slice(s, lo, hi) == SubSeq(s, lo + 1, Min(hi, Len(s)))

\* needle in hay
Contains(hay, needle) ==
    \E i \in 0..(Len(hay) - Len(needle)) : SubSeq(hay, i + 1, i + Len(needle)) = needle

UpperChars == <<"A","B","C","D","E","F","G","H","I","J","K","L","M",
                "N","O","P","Q","R","S","T","U","V","W","X","Y","Z">>
LowerChars == <<"a","b","c","d","e","f","g","h","i","j","k","l","m",
                "n","o","p","q","r","s","t","u","v","w","x","y","z">>

\* str.lower()
Lower(s) ==
    [i \in 1..Len(s) |->
        IF \E k \in 1..Len(UpperChars) : UpperChars[k] = s[i]
        THEN LowerChars[CHOOSE k \in 1..Len(UpperChars) : UpperChars[k] = s[i]]
        ELSE s[i]]

\* bool(x) for an optional bytes or str: None and the empty value are false
TruthySeq(x) == x.tag = "Some" /\ Len(x.val) > 0

\* bool(response) for an optional requests.Response.  Response.__bool__ is
\* Response.ok: true exactly when raise_for_status() would not raise, i.e. the
\* status is not in 400..599.
RaisesForStatus(r) == r.status_code >= 400 /\ r.status_code < 600
TruthyResponse(x) == x.tag = "Some" /\ ~RaisesForStatus(x.val)

\* response.headers.get(name, default); headers is a tuple of <<name, value>>
HeadersGet(headers, name, default) ==
    IF \E i \in 1..Len(headers) : headers[i][1] = name
    THEN headers[CHOOSE i \in 1..Len(headers) :
                    /\ headers[i][1] = name
                    /\ \A j \in 1..(i - 1) : headers[j][1] # name][2]
    ELSE default

---------------------------------------------------------------------------
(* detect_format *)

jpeg == <<"j","p","e","g">>
png == <<"p","n","g">>
gif == <<"g","i","f">>
webp == <<"w","e","b","p">>
ico == <<"i","c","o">>
bmp == <<"b","m","p">>
tiff == <<"t","i","f","f">>
svg == <<"s","v","g">>
avif == <<"a","v","i","f">>
heic == <<"h","e","i","c">>

\* The test the chain of lines 32-51 makes for each tag, on its own
magic(tag, d) ==
    CASE tag = jpeg -> StartsWith(d, <<255, 216, 255>>)
      [] tag = webp -> /\ StartsWith(d, <<82, 73, 70, 70>>)
                       /\ Len(d) >= 12
                       /\ Contains(Slice(d, 8, 12), <<87, 69, 66, 80>>)
      [] tag = png -> StartsWith(d, <<137, 80, 78, 71, 13, 10, 26, 10>>)
      [] tag = gif -> \/ StartsWith(d, <<71, 73, 70, 56, 55, 97>>)
                      \/ StartsWith(d, <<71, 73, 70, 56, 57, 97>>)
      [] tag = ico -> \/ StartsWith(d, <<0, 0, 1, 0>>)
                      \/ StartsWith(d, <<0, 0, 2, 0>>)
      [] tag = bmp -> StartsWith(d, <<66, 77>>)
      [] tag = tiff -> \/ StartsWith(d, <<73, 73, 42, 0>>)
                       \/ StartsWith(d, <<77, 77, 0, 42>>)
      [] tag = svg -> \/ StartsWith(d, <<60, 63, 120, 109, 108>>)
                      \/ StartsWith(d, <<60, 115, 118, 103>>)
      [] tag = avif -> /\ Len(d) >= 12
                       /\ Contains(Slice(d, 4, 12),
                                   <<102, 116, 121, 112, 97, 118, 105, 102>>)
      [] tag = heic -> /\ Len(d) >= 12
                       /\ \/ Contains(Slice(d, 4, 12),
                                      <<102, 116, 121, 112, 104, 101, 105, 99>>)
                          \/ Contains(Slice(d, 4, 12),
                                      <<102, 116, 121, 112, 109, 105, 102, 49>>)

\* The order in which the chain makes its tests
CodeOrder == <<jpeg, webp, png, gif, ico, bmp, tiff, svg, avif, heic>>

\* Method 1 with the tests of the chain made in the order given
Method1In(order, image_data) ==
    IF ~TruthySeq(image_data) THEN None
    ELSE LET hits == {i \in 1..Len(order) : magic(order[i], image_data.val)} IN
         IF hits = {} THEN None
         ELSE Some(order[CHOOSE i \in hits : \A j \in hits : i <= j])

\* A variant of Method1 that looks for the ftyp brands before the prefixes
Method1_brands_first(image_data) ==
    Method1In(<<avif, heic, jpeg, webp, png, gif, ico, bmp, tiff, svg>>, image_data)

\* Method 1: magic numbers.  Some(tag), or None when the chain falls through.
Method1(image_data) ==
    IF ~TruthySeq(image_data) THEN None
    ELSE LET d == image_data.val IN
      IF StartsWith(d, <<255, 216, 255>>) THEN Some(jpeg)
      ELSE IF /\ StartsWith(d, <<82, 73, 70, 70>>)
              /\ Len(d) >= 12
              /\ Contains(Slice(d, 8, 12), <<87, 69, 66, 80>>) THEN Some(webp)
      ELSE IF StartsWith(d, <<137, 80, 78, 71, 13, 10, 26, 10>>) THEN Some(png)
      ELSE IF \/ StartsWith(d, <<71, 73, 70, 56, 55, 97>>)
              \/ StartsWith(d, <<71, 73, 70, 56, 57, 97>>) THEN Some(gif)
      ELSE IF \/ StartsWith(d, <<0, 0, 1, 0>>)
              \/ StartsWith(d, <<0, 0, 2, 0>>) THEN Some(ico)
      ELSE IF StartsWith(d, <<66, 77>>) THEN Some(bmp)
      ELSE IF \/ StartsWith(d, <<73, 73, 42, 0>>)
              \/ StartsWith(d, <<77, 77, 0, 42>>) THEN Some(tiff)
      ELSE IF \/ StartsWith(d, <<60, 63, 120, 109, 108>>)
              \/ StartsWith(d, <<60, 115, 118, 103>>) THEN Some(svg)
      ELSE IF /\ Len(d) >= 12
              /\ Contains(Slice(d, 4, 12), <<102, 116, 121, 112, 97, 118, 105, 102>>)
           THEN Some(avif)
      ELSE IF /\ Len(d) >= 12
              /\ \/ Contains(Slice(d, 4, 12), <<102, 116, 121, 112, 104, 101, 105, 99>>)
                 \/ Contains(Slice(d, 4, 12), <<102, 116, 121, 112, 109, 105, 102, 49>>)
           THEN Some(heic)
      ELSE None

\* Method 2: the Content-Type header
Method2(resp) ==
    IF ~TruthyResponse(resp) THEN None
    ELSE LET content_type == Lower(HeadersGet(resp.val.headers, "content-type", <<>>)) IN
      IF Contains(content_type, jpeg) \/ Contains(content_type, <<"j","p","g">>)
        THEN Some(jpeg)
      ELSE IF Contains(content_type, png) THEN Some(png)
      ELSE IF Contains(content_type, gif) THEN Some(gif)
      ELSE IF Contains(content_type, webp) THEN Some(webp)
      ELSE IF Contains(content_type, bmp) THEN Some(bmp)
      ELSE IF Contains(content_type, tiff) \/ Contains(content_type, <<"t","i","f">>)
        THEN Some(tiff)
      ELSE IF Contains(content_type, svg) THEN Some(svg)
      ELSE IF Contains(content_type, avif) THEN Some(avif)
      ELSE IF Contains(content_type, heic) \/ Contains(content_type, <<"h","e","i","f">>)
        THEN Some(heic)
      ELSE IF Contains(content_type, ico) \/ Contains(content_type, <<"i","c","o","n">>)
        THEN Some(ico)
      ELSE None

\* The body of Method 3's try block: Image.open on the bytes and img.format.
\* p is what Pillow does with these bytes: Raise(..), Some(format name), or
\* None for an image whose format attribute is empty.
PillowOpen(image_data, p) ==
    IF ~TruthySeq(image_data) THEN None
    ELSE IF p.tag = "Raise" THEN p
    ELSE IF TruthySeq(p) THEN Some(Lower(p.val))
    ELSE None

\* A variant of Method3 whose try has no except clause.
Method3_uncaught(image_data, p) == PillowOpen(image_data, p)

\* Method 3: try: ... except Exception: pass
Method3(image_data, p) ==
    LET r == PillowOpen(image_data, p) IN
    IF r.tag = "Raise" THEN None ELSE r

\* A variant of detect_format that reads the Content-Type header first.
detect_format_header_first(image_data, resp, p) ==
    IF Method2(resp).tag = "Some" THEN Method2(resp)
    ELSE IF Method1(image_data).tag = "Some" THEN Method1(image_data)
    ELSE Method3(image_data, p)

detect_format(image_data, resp, p) ==
    IF Method1(image_data).tag = "Some" THEN Method1(image_data)
    ELSE IF Method2(resp).tag = "Some" THEN Method2(resp)
    ELSE Method3(image_data, p)


---------------------------------------------------------------------------
(* The sniffer harness: detect_format applied to inputs drawn at Init *)

NotCalled == [tag |-> "NotCalled", val |-> <<>>]

\* Byte buffers: every prefix, up to MaxBuf bytes, of the seeds below followed
\* by filler bytes.  The seeds are the signatures of Method 1, near misses of
\* them, and buffers in which a prefix signature and an ftyp box meet.
Filler == [i \in 1..(MaxBuf + 1) |-> 1]
FtypAvif == <<102, 116, 121, 112, 97, 118, 105, 102>>
FtypHeic == <<102, 116, 121, 112, 104, 101, 105, 99>>
FtypMif1 == <<102, 116, 121, 112, 109, 105, 102, 49>>
FtypMp42 == <<102, 116, 121, 112, 109, 112, 52, 50>>
Seeds ==
    { <<255, 216, 255, 224>>,
      <<255, 216, 254>>,
      <<82, 73, 70, 70, 36, 0, 0, 0, 87, 69, 66, 80>>,
      <<82, 73, 70, 70, 36, 0, 0, 0, 87, 65, 86, 69>>,
      <<137, 80, 78, 71, 13, 10, 26, 10>>,
      <<137, 80, 78, 71, 13, 10, 26, 13>>,
      <<71, 73, 70, 56, 55, 97>>,
      <<71, 73, 70, 56, 57, 97>>,
      <<71, 73, 70, 56, 56, 97>>,
      <<0, 0, 1, 0>>,
      <<0, 0, 2, 0>>,
      <<0, 0, 3, 0>>,
      <<66, 77>>,
      <<73, 73, 42, 0>>,
      <<77, 77, 0, 42>>,
      <<60, 63, 120, 109, 108>>,
      <<60, 115, 118, 103>>,
      <<80, 54, 10>>,
      <<0, 0, 0, 28>> \o FtypAvif,
      <<0, 0, 0, 28>> \o FtypHeic,
      <<0, 0, 0, 28>> \o FtypMif1,
      <<0, 0, 0, 28>> \o FtypMp42,
      <<0, 0, 0, 0, 28>> \o FtypAvif,
      <<66, 77, 0, 0>> \o FtypAvif,
      <<255, 216, 255, 224>> \o FtypHeic,
      <<60, 115, 118, 103>> \o FtypAvif,
      <<0, 0, 1, 0>> \o FtypMif1,
      <<82, 73, 70, 70>> \o <<102, 116, 121, 112, 87, 69, 66, 80>> }
Buffers == {Slice(s \o Filler, 0, n) : s \in Seeds, n \in 0..MaxBuf}

ContentTypes ==
    { <<"i","m","a","g","e","/","p","n","g">>,
      <<"i","m","a","g","e","/","j","p","e","g">>,
      <<"i","m","a","g","e","/","j","p","g">>,
      <<"I","M","A","G","E","/","P","N","G">>,
      <<"i","m","a","g","e","/","g","i","f">>,
      <<"i","m","a","g","e","/","w","e","b","p">>,
      <<"i","m","a","g","e","/","b","m","p">>,
      <<"i","m","a","g","e","/","t","i","f","f">>,
      <<"i","m","a","g","e","/","s","v","g","+","x","m","l">>,
      <<"i","m","a","g","e","/","a","v","i","f">>,
      <<"i","m","a","g","e","/","h","e","i","f">>,
      <<"i","m","a","g","e","/","x","-","i","c","o","n">>,
      <<"i","m","a","g","e","/","v","n","d",".","m","i","c","r","o","s","o","f","t",".","i","c","o","n">>,
      <<"t","e","x","t","/","h","t","m","l">>,
      <<"i","m","a","g","e","/","p","n","g",","," ","i","m","a","g","e","/","g","i","f">>,
      <<>> }
\* Header sets of a response: no Content-Type header, or one.
HeaderSets == {<<>>} \cup {<< <<"content-type", ct>> >> : ct \in ContentTypes}
SniffResponses ==
    {None} \cup {Some([status_code |-> st, headers |-> h, content |-> <<>>]) :
                    st \in {200, 404}, h \in HeaderSets}

\* What Image.open may do with a buffer: raise, or identify a format that
\* Method 1 has no signature for, or yield an image without a format name.
PilOutcomes == {Raise("UnidentifiedImageError"), Some(<<"P","P","M">>), None}

\* One call of detect_format(image_data=sn_data, response=sn_resp)
Sniff ==
    /\ sn_out = NotCalled
    /\ sn_out' = detect_format(sn_data, sn_resp, sn_pil)
    /\ UNCHANGED <<sn_data, sn_resp, sn_pil>>
    /\ UNCHANGED dl_vars


---------------------------------------------------------------------------
(* str and pathlib operations used by download *)

\* global_vars.py and the literal of image.py, each one token
Origin == "https://www.jawa.gg/"
jawa_base_url == "https://www.jawa.gg"
image_url_prefix ==
    "https://raw.githubusercontent.com/PowerPCFan/Jawa-Scraper/refs/heads/main/output/images"

\* A path is the tuple of its parts (PurePosixPath.parts), each part a str.
\* "/" stands for the directory above output/.
Root == <<"/">>
output_dir == <<Root, <<"output">>>>
image_save_dir == output_dir \o << <<"images">> >>

\* s.replace(old, ''), old a one-token literal
Replace(s, old) == SelectSeq(s, LAMBDA c : c # old)

\* s.split('/')
RECURSIVE Split(_)
Split(s) ==
    IF \E i \in 1..Len(s) : s[i] = "/"
    THEN LET i == CHOOSE k \in 1..Len(s) :
                    s[k] = "/" /\ \A j \in 1..(k - 1) : s[j] # "/"
         IN <<SubSeq(s, 1, i - 1)>> \o Split(SubSeq(s, i + 1, Len(s)))
    ELSE <<s>>

\* '/'.join(parts)
RECURSIVE Join(_)
Join(parts) ==
    IF parts = <<>> THEN <<>>
    ELSE IF Len(parts) = 1 THEN parts[1]
    ELSE parts[1] \o <<"/">> \o Join(Tail(parts))

\* uuid.uuid5(uuid.NAMESPACE_URL, name) as a str, for the names over "a"
uuid5(name) ==
    CASE name = <<>> -> "1b4db7eb-4057-5ddf-91e0-36dec72071f5"
      [] name = <<"a">> -> "e1407479-3136-56c0-9908-bb02fb0339e2"
      [] name = <<"a","a">> -> "26230cba-d632-5509-a9a0-ec3d22883ff7"
      [] name = <<"a","a","a">> -> "23932b60-2cbd-5366-9c36-8b374f1954a5"
      [] name = <<"a","a","a","a">> -> "774def39-c884-56fe-a0cd-ad8c32691a68"

\* The parts pathlib parses out of a str: empty segments (repeated, leading
\* and trailing separators) and "." segments are dropped; ".." segments are
\* kept, pathlib does not resolve them.
Dot == <<".">>
DotDot == <<".", ".">>
PathParts(s) == SelectSeq(Split(s), LAMBDA seg : seg # <<>> /\ seg # Dot)

\* p / s.  An s that starts with a separator is absolute and replaces p.
\* (pathlib keeps a root of exactly two slashes as "//"; it names the same
\* directory and is written Root here.)
PathJoin(p, s) ==
    IF StartsWith(s, <<"/">>) THEN <<Root>> \o PathParts(s) ELSE p \o PathParts(s)

\* p.parent
Parent(p) == IF Len(p) <= 1 THEN p ELSE SubSeq(p, 1, Len(p) - 1)

\* p.relative_to(base): the parts after base, or ValueError
RelativeTo(p, base) ==
    IF StartsWith(p, base) THEN Some(SubSeq(p, Len(base) + 1, Len(p)))
    ELSE Raise("ValueError")

\* p.as_posix() of a relative path
AsPosix(parts) == Join(parts)

\* p and every ancestor of p
Ancestors(p) == {SubSeq(p, 1, n) : n \in 1..Len(p)}

---------------------------------------------------------------------------
(* The file system *)

\* fs_dirs and the path of a file of fs_files are paths without "..": the
\* entries the file system holds.  A path the program hands to the file
\* system is resolved to one of these, part by part.
FilePaths(files) == {f.path : f \in files}

\* The entry that the parts rest lead to from the directory cur: ".." leads
\* to the parent, and every part but the last is looked up in a directory
\* that must be there (FileNotFoundError otherwise).
RECURSIVE Walk(_, _, _)
Walk(dirs, cur, rest) ==
    IF rest = <<>> THEN Some(cur)
    ELSE IF cur \notin dirs THEN Raise("FileNotFoundError")
    ELSE IF Head(rest) = DotDot THEN Walk(dirs, Parent(cur), Tail(rest))
    ELSE Walk(dirs, Append(cur, Head(rest)), Tail(rest))

\* the entry an absolute path names
Real(dirs, p) == Walk(dirs, <<Head(p)>>, Tail(p))

\* p.exists()
Exists(dirs, files, p) ==
    /\ Real(dirs, p).tag = "Some"
    /\ Real(dirs, p).val \in dirs \cup FilePaths(files)

\* the names of the entries of the directory d
Listing(dirs, files, d) ==
    {e[Len(e)] : e \in {q \in dirs \cup FilePaths(files) : Len(q) > 1 /\ Parent(q) = d}}

\* A variant of Glob whose pattern is the bare name, without ".*"
Glob_exact(dirs, files, parent_dir, name) ==
    IF Real(dirs, parent_dir).tag = "Some" /\ Real(dirs, parent_dir).val \in dirs
    THEN {Append(parent_dir, e) :
            e \in {n \in Listing(dirs, files, Real(dirs, parent_dir).val) : n = <<name>>}}
    ELSE {}

\* parent_dir.glob(f"{name}.*"): the entries of the directory parent_dir
\* names whose name starts with name and a dot, each as parent_dir / entry
Glob(dirs, files, parent_dir, name) ==
    IF Real(dirs, parent_dir).tag = "Some" /\ Real(dirs, parent_dir).val \in dirs
    THEN {Append(parent_dir, e) :
            e \in {n \in Listing(dirs, files, Real(dirs, parent_dir).val) :
                      StartsWith(n, <<name, ".">>)}}
    ELSE {}

\* p.mkdir(parents=True, exist_ok=True), when it succeeds: the directories
\* that the first n parts of p, then the next, ..., then p name are there
RECURSIVE MkdirFrom(_, _, _)
MkdirFrom(dirs, p, n) ==
    IF n > Len(p) THEN dirs
    ELSE LET r == Real(dirs, SubSeq(p, 1, n)) IN
         MkdirFrom(IF r.tag = "Some" THEN dirs \cup {r.val} ELSE dirs, p, n + 1)
MkdirParents(dirs, p) == MkdirFrom(dirs, p, 1)

\* open(p, 'wb') and f.write of the first n bytes of content: the file is
\* created or truncated, and holds what was written.  of records the bytes
\* the writer meant to store.
WriteFile(files, p, content, n) ==
    {f \in files : f.path # p}
        \cup {[path |-> p, data |-> SubSeq(content, 1, n), of |-> content]}

---------------------------------------------------------------------------
(* download: the values it computes from image_url *)

\* the guard of line 102 negated: the URL is one download mirrors
InSourceDomain_anywhere(url) == url # <<>> /\ Contains(url, <<Origin>>)

InSourceDomain(url) == url # <<>> /\ StartsWith(url, <<Origin>>)

original_path(url) == Replace(url, Origin)
path_parts(url) == Split(original_path(url))
original_filename(url) == path_parts(url)[Len(path_parts(url))]
directory_path(url) ==
    IF Len(path_parts(url)) > 1
    THEN Join(SubSeq(path_parts(url), 1, Len(path_parts(url)) - 1))
    ELSE <<>>
filename_uuid(url) == uuid5(original_filename(url))

\* A variant of search_pattern that leaves the directory out
search_pattern_flat(url) == PathJoin(image_save_dir, <<filename_uuid(url)>>)

search_pattern(url) ==
    PathJoin(PathJoin(image_save_dir, directory_path(url)), <<filename_uuid(url)>>)
parent_dir(url) == Parent(search_pattern(url))

\* extension and final_filename, lines 132-134
extension(img_format) ==
    IF TruthySeq(img_format) THEN <<".">> \o img_format.val ELSE <<".", "b", "i", "n">>
final_filename(url, img_format) == <<filename_uuid(url)>> \o extension(img_format)

\* lines 135-138
local_file_path(url, img_format) ==
    IF directory_path(url) # <<>>
    THEN PathJoin(PathJoin(image_save_dir, directory_path(url)),
                  final_filename(url, img_format))
    ELSE PathJoin(image_save_dir, final_filename(url, img_format))

\* f"{image_url_prefix}/{relative_path.as_posix()}", lines 120-121 and 143-144:
\* Some(reference), or the ValueError of relative_to
Reference(p) ==
    LET relative_path == RelativeTo(p, image_save_dir) IN
    IF relative_path.tag = "Raise" THEN relative_path
    ELSE Some(<<image_url_prefix, "/">> \o AsPosix(relative_path.val))

---------------------------------------------------------------------------
(* The environment of download: what requests.get may answer *)

Html == <<"t","e","x","t","/","h","t","m","l">>

\* A response and what Image.open would make of its content: a JPEG whose
\* header says PNG, a byte that only the header identifies, an empty body
\* without a Content-Type, and an error status.
FetchResponses ==
    { [resp |-> [status_code |-> 200, content |-> <<255, 216, 255>>,
                 headers |-> << <<"content-type", <<"i","m","a","g","e","/","p","n","g">>>> >>],
       pil |-> Some(<<"J","P","E","G">>)],
      [resp |-> [status_code |-> 200, content |-> <<71>>,
                 headers |-> << <<"content-type", <<"i","m","a","g","e","/","g","i","f">>>> >>],
       pil |-> Raise("UnidentifiedImageError")],
      [resp |-> [status_code |-> 200, content |-> <<>>, headers |-> <<>>],
       pil |-> Raise("UnidentifiedImageError")],
      [resp |-> [status_code |-> 404, content |-> <<>>,
                 headers |-> << <<"content-type", Html>> >>],
       pil |-> Raise("UnidentifiedImageError")] }

\* requests.get raising instead of answering
FetchErrors == {"Timeout", "ConnectionError"}

\* The classes `except Exception` catches: every exception raised in the try
\* block derives from Exception.
Catches_requests_only(e) == e \in {"Timeout", "ConnectionError", "HTTPError"}

Catches(e) == e \in {"Timeout", "ConnectionError", "HTTPError", "OSError", "ValueError"}

---------------------------------------------------------------------------
(* download, one action per step a thread takes *)

Main == "main"

\* Callers a layer that parallelizes the calls would run beside the loop:
\* download takes no lock and shares only the file system with other calls.
WorkerOrder == <<"w1", "w2", "w3">>
Workers == {WorkerOrder[i] : i \in 1..Len(WorkerOrder)}
Threads == {Main} \cup Workers

Terminal == {"PASSTHROUGH", "ALREADY_STORED", "STORED", "FAILED_RETURN_ORIGINAL"}

NoCall == [url |-> <<>>, result |-> <<>>, outcome |-> "none", fetches |-> 0]

\* pc and path move on together
Goto(t, label) ==
    /\ pc' = [pc EXCEPT ![t] = label]
    /\ path' = [path EXCEPT ![t] = Append(@, label)]

\* an exception raised inside the try block: control goes to line 146
Throw(t, e) ==
    /\ exc' = [exc EXCEPT ![t] = e]
    /\ Goto(t, "except")

\* A variant of Enter that notes the locator in downloaded_images
Enter_recording(t, url) ==
    /\ pc[t] = "idle"
    /\ calls < MaxCalls
    /\ calls' = calls + 1
    /\ image_url' = [image_url EXCEPT ![t] = url]
    /\ pc' = [pc EXCEPT ![t] = "UNCHECKED"]
    /\ path' = [path EXCEPT ![t] = <<"UNCHECKED">>]
    /\ exc' = [exc EXCEPT ![t] = "none"]
    /\ response' = [response EXCEPT ![t] = None]
    /\ pil' = [pil EXCEPT ![t] = None]
    /\ result' = [result EXCEPT ![t] = <<>>]
    /\ fetches' = [fetches EXCEPT ![t] = 0]
    /\ fs0' = [fs0 EXCEPT ![t] = <<fs_dirs, fs_files>>]
    /\ downloaded_images' = downloaded_images \cup {url}
    /\ UNCHANGED <<fs_dirs, fs_files, prev>>

\* download(url) is entered
Enter(t, url) ==
    /\ pc[t] = "idle"
    /\ calls < MaxCalls
    /\ calls' = calls + 1
    /\ image_url' = [image_url EXCEPT ![t] = url]
    /\ pc' = [pc EXCEPT ![t] = "UNCHECKED"]
    /\ path' = [path EXCEPT ![t] = <<"UNCHECKED">>]
    /\ exc' = [exc EXCEPT ![t] = "none"]
    /\ response' = [response EXCEPT ![t] = None]
    /\ pil' = [pil EXCEPT ![t] = None]
    /\ result' = [result EXCEPT ![t] = <<>>]
    /\ fetches' = [fetches EXCEPT ![t] = 0]
    /\ fs0' = [fs0 EXCEPT ![t] = <<fs_dirs, fs_files>>]
    /\ UNCHANGED <<fs_dirs, fs_files, prev, downloaded_images>>

\* lines 102-121: the passthrough test and the look for a stored copy.
\* glob yields the entries in the directory's order, which the program does
\* not control: existing_files[0] is any of them.
Check(t) ==
    /\ pc[t] = "UNCHECKED"
    /\ IF ~InSourceDomain(image_url[t])
       THEN /\ result' = [result EXCEPT ![t] = image_url[t]]
            /\ Goto(t, "PASSTHROUGH")
            /\ UNCHANGED exc
       ELSE LET existing_files ==
                    IF Exists(fs_dirs, fs_files, parent_dir(image_url[t]))
                    THEN Glob(fs_dirs, fs_files, parent_dir(image_url[t]),
                              filename_uuid(image_url[t]))
                    ELSE {}
            IN IF existing_files # {}
               THEN \E first \in existing_files :
                      IF Reference(first).tag = "Raise"
                      THEN /\ Throw(t, "ValueError")
                           /\ UNCHANGED result
                      ELSE /\ result' = [result EXCEPT ![t] = Reference(first).val]
                           /\ Goto(t, "ALREADY_STORED")
                           /\ UNCHANGED exc
               ELSE /\ Goto(t, "FETCHING")
                    /\ UNCHANGED <<result, exc>>
    /\ UNCHANGED <<fs_dirs, fs_files, image_url, response, pil, calls, fetches, fs0, prev>>
    /\ UNCHANGED <<caller_vars, downloaded_images>>

\* lines 123-125: requests.get and raise_for_status, leaving the directories dirs
FetchLeaving(t, dirs) ==
    /\ pc[t] = "FETCHING"
    /\ fetches' = [fetches EXCEPT ![t] = @ + 1]
    /\ fs_dirs' = dirs
    /\ \/ \E e \in FetchErrors :
            /\ Throw(t, e)
            /\ UNCHANGED <<response, pil>>
       \/ \E r \in FetchResponses :
            IF RaisesForStatus(r.resp)
            THEN /\ Throw(t, "HTTPError")
                 /\ UNCHANGED <<response, pil>>
            ELSE /\ response' = [response EXCEPT ![t] = Some(r.resp)]
                 /\ pil' = [pil EXCEPT ![t] = r.pil]
                 /\ Goto(t, "fetched")
                 /\ UNCHANGED exc
    /\ UNCHANGED <<fs_files, image_url, result, calls, fs0, prev>>
    /\ UNCHANGED <<caller_vars, downloaded_images>>

\* A variant of Fetch that creates the destination directory before fetching.
Fetch_mkdir_first(t) ==
    FetchLeaving(t, MkdirParents(fs_dirs, parent_dir(image_url[t])))

Fetch(t) == FetchLeaving(t, fs_dirs)

\* line 127: detect_format on the fetched content
img_format(t) ==
    detect_format(Some(response[t].val.content), response[t], pil[t])

\* lines 127-140: the format, the destination and its directory.  Creating a
\* directory that is not there may fail.
Mkdir(t) ==
    /\ pc[t] = "fetched"
    /\ IF img_format(t).tag = "Raise"
       THEN /\ Throw(t, img_format(t).val[1])
            /\ UNCHANGED fs_dirs
       ELSE LET dir == Parent(local_file_path(image_url[t], img_format(t))) IN
            \/ /\ fs_dirs' = MkdirParents(fs_dirs, dir)
               /\ Goto(t, "made")
               /\ UNCHANGED exc
            \/ /\ MkdirParents(fs_dirs, dir) # fs_dirs
               /\ Throw(t, "OSError")
               /\ UNCHANGED fs_dirs
    /\ UNCHANGED <<fs_files, image_url, response, pil, result, calls, fetches, fs0, prev>>
    /\ UNCHANGED <<caller_vars, downloaded_images>>

\* the entry local_file_path names, its directory made
destination(t) == Real(fs_dirs, local_file_path(image_url[t], img_format(t))).val

\* line 141: open(local_file_path, 'wb') creates the file empty, or fails
Open(t) ==
    /\ pc[t] = "made"
    /\ \/ /\ fs_files' = WriteFile(fs_files, destination(t), response[t].val.content, 0)
          /\ Goto(t, "opened")
          /\ UNCHANGED exc
       \/ /\ Throw(t, "OSError")
          /\ UNCHANGED fs_files
    /\ UNCHANGED <<fs_dirs, image_url, response, pil, result, calls, fetches, fs0, prev>>
    /\ UNCHANGED <<caller_vars, downloaded_images>>

\* lines 142-144: f.write(response.content), the file closed, the reference
\* built.  A write that fails leaves the bytes written before it failed.
Write(t) ==
    /\ pc[t] = "opened"
    /\ LET p == local_file_path(image_url[t], img_format(t))
           content == response[t].val.content
       IN \/ /\ fs_files' = WriteFile(fs_files, destination(t), content, Len(content))
             /\ IF Reference(p).tag = "Raise"
                THEN /\ Throw(t, "ValueError")
                     /\ UNCHANGED result
                ELSE /\ result' = [result EXCEPT ![t] = Reference(p).val]
                     /\ Goto(t, "STORED")
                     /\ UNCHANGED exc
          \/ \E n \in 0..(Len(content) - 1) :
                /\ fs_files' = WriteFile(fs_files, destination(t), content, n)
                /\ Throw(t, "OSError")
                /\ UNCHANGED result
    /\ UNCHANGED <<fs_dirs, image_url, response, pil, calls, fetches, fs0, prev>>
    /\ UNCHANGED <<caller_vars, downloaded_images>>

\* lines 146-148: except Exception: return image_url.  An exception the
\* clause does not catch leaves download.
Except(t) ==
    /\ pc[t] = "except"
    /\ IF Catches(exc[t])
       THEN /\ result' = [result EXCEPT ![t] = image_url[t]]
            /\ Goto(t, "FAILED_RETURN_ORIGINAL")
       ELSE /\ Goto(t, "raised")
            /\ UNCHANGED result
    /\ UNCHANGED <<fs_dirs, fs_files, image_url, response, pil, exc, calls, fetches,
                   fs0, prev>>
    /\ UNCHANGED <<caller_vars, downloaded_images>>

\* download returns: its locals are gone, the caller holds result[t]
Leave(t) ==
    /\ pc[t] \in Terminal
    /\ pc' = [pc EXCEPT ![t] = "idle"]
    /\ prev' = [prev EXCEPT ![t] = [url |-> image_url[t], result |-> result[t],
                                    outcome |-> pc[t], fetches |-> fetches[t]]]
    /\ image_url' = [image_url EXCEPT ![t] = <<>>]
    /\ response' = [response EXCEPT ![t] = None]
    /\ pil' = [pil EXCEPT ![t] = None]
    /\ exc' = [exc EXCEPT ![t] = "none"]
    /\ result' = [result EXCEPT ![t] = <<>>]
    /\ fetches' = [fetches EXCEPT ![t] = 0]
    /\ path' = [path EXCEPT ![t] = <<>>]
    /\ fs0' = [fs0 EXCEPT ![t] = <<fs_dirs, fs_files>>]
    /\ UNCHANGED <<fs_dirs, fs_files, calls, downloaded_images>>

---------------------------------------------------------------------------
(* crawl_seller_listing_details: the loop over the images of a listing *)

\* The src attributes a page may carry: one for each way lines 102-110 of
\* image.py and lines 103-104 of crawlers.py can treat a source.
Sources ==
    { <<>>,                                \* an empty src
      <<"a">>,                             \* "a": no scheme, no leading slash
      <<"/", "a">>,                        \* "/a": joined to the base URL
      <<"/", "/", "a">>,                   \* "//a": another host
      <<"a", Origin>>,                     \* the origin, but not at the start
      <<Origin>>,                          \* the origin alone: an empty file name
      <<Origin, "a">>,                     \* a file at the top
      <<Origin, "a", "/", "a">>,           \* the same file name in a directory
      <<Origin, "a", "/", Origin, "a">>,   \* the origin a second time, inside the path
      <<Origin, "/", "a", "/", "a">>,      \* "https://www.jawa.gg//a/a": the path starts with "/"
      <<Origin, "b", "/", ".", ".", "/", "a">> }
                                           \* ".../b/../a": the top directory, by another name

\* urljoin(base, src) for a src that starts with "/" and the base
\* jawa_base_url, which has no path.  "//host..." is a network-path reference
\* and keeps only the scheme of the base; an empty host falls back to the base.
urljoin(src) ==
    IF Len(src) >= 2 /\ src[2] = "/"
    THEN IF Len(src) = 2 THEN <<jawa_base_url>>
         ELSE IF src[3] = "/" THEN <<Origin>> \o SubSeq(src, 4, Len(src))
         ELSE <<"https:">> \o src
    ELSE <<Origin>> \o Tail(src)

\* soup.select gave a listing with n images.  The sources do not depend on
\* anything download does, so each is drawn when the loop reaches it.
StartListing ==
    /\ pc[Main] = "idle"
    /\ remaining = 0
    /\ \E n \in 1..MaxImages :
          /\ calls + n <= MaxCalls
          /\ remaining' = n
    /\ images' = <<>>
    /\ UNCHANGED <<fs_dirs, fs_files, pc, image_url, response, pil, exc, result, calls,
                   fetches, path, fs0, prev, downloaded_images>>
    /\ UNCHANGED sn_vars

\* crawlers.py lines 102-105, up to the call
Iterate ==
    /\ remaining > 0
    /\ \E src \in Sources :
          Enter(Main, IF StartsWith(src, <<"/">>) THEN urljoin(src) ELSE src)
    /\ UNCHANGED <<images, remaining>>
    /\ UNCHANGED sn_vars

\* crawlers.py line 105: images[index] = the value download returned
Assign ==
    /\ Leave(Main)
    /\ images' = Append(images, result[Main])
    /\ remaining' = remaining - 1
    /\ UNCHANGED sn_vars

Init ==
    /\ fs_dirs = Ancestors(image_save_dir)
    /\ fs_files = {}
    /\ pc = [t \in Threads |-> "idle"]
    /\ image_url = [t \in Threads |-> <<>>]
    /\ response = [t \in Threads |-> None]
    /\ pil = [t \in Threads |-> None]
    /\ exc = [t \in Threads |-> "none"]
    /\ result = [t \in Threads |-> <<>>]
    /\ images = <<>>
    /\ remaining = 0
    /\ calls = 0
    /\ fetches = [t \in Threads |-> 0]
    /\ path = [t \in Threads |-> <<>>]
    /\ fs0 = [t \in Threads |-> <<Ancestors(image_save_dir), {}>>]
    /\ prev = [t \in Threads |-> NoCall]
    /\ downloaded_images = {}
    /\ sn_data = None
    /\ sn_resp = None
    /\ sn_pil = None
    /\ sn_out = NotCalled

Next ==
    \/ StartListing
    \/ Iterate
    \/ Check(Main)
    \/ Fetch(Main)
    \/ Mkdir(Main)
    \/ Open(Main)
    \/ Write(Main)
    \/ Except(Main)
    \/ Assign

Spec == Init /\ [][Next]_vars

\* The locator handed to the parallel callers: they all want the same image.
ConcSources == { <<Origin, "a">> }

\* A parallel caller enters download(url); it makes one call.  The callers
\* are alike, so they are entered in the order of WorkerOrder: every run of
\* three calls is this one with the callers renamed.
Spawn(t) ==
    /\ pc[t] = "idle"
    /\ \A i, j \in 1..Len(WorkerOrder) :
          (i < j /\ WorkerOrder[j] = t) => pc[WorkerOrder[i]] # "idle"
    /\ \E url \in ConcSources :
          image_url' = [image_url EXCEPT ![t] = url]
    /\ calls' = calls + 1
    /\ pc' = [pc EXCEPT ![t] = "UNCHECKED"]
    /\ path' = [path EXCEPT ![t] = <<"UNCHECKED">>]
    /\ fs0' = [fs0 EXCEPT ![t] = <<fs_dirs, fs_files>>]
    /\ UNCHANGED <<fs_dirs, fs_files, response, pil, exc, result, fetches, prev,
                   downloaded_images>>
    /\ UNCHANGED caller_vars

\* The calls of the parallel callers, their steps interleaved in any order
NextConc ==
    \/ \E t \in Workers : Spawn(t)
    \/ \E t \in Workers : Check(t)
    \/ \E t \in Workers : Fetch(t)
    \/ \E t \in Workers : Mkdir(t)
    \/ \E t \in Workers : Open(t)
    \/ \E t \in Workers : Write(t)
    \/ \E t \in Workers : Except(t)

SpecConc == Init /\ [][NextConc]_vars

\* The sniffer alone: the inputs drawn at the start, then the call
InitSniff ==
    /\ fs_dirs = Ancestors(image_save_dir)
    /\ fs_files = {}
    /\ pc = [t \in Threads |-> "idle"]
    /\ image_url = [t \in Threads |-> <<>>]
    /\ response = [t \in Threads |-> None]
    /\ pil = [t \in Threads |-> None]
    /\ exc = [t \in Threads |-> "none"]
    /\ result = [t \in Threads |-> <<>>]
    /\ images = <<>>
    /\ remaining = 0
    /\ calls = 0
    /\ fetches = [t \in Threads |-> 0]
    /\ path = [t \in Threads |-> <<>>]
    /\ fs0 = [t \in Threads |-> <<Ancestors(image_save_dir), {}>>]
    /\ prev = [t \in Threads |-> NoCall]
    /\ downloaded_images = {}
    /\ sn_data \in {None} \cup {Some(b) : b \in Buffers}
    /\ sn_resp \in SniffResponses
    /\ sn_pil \in PilOutcomes
    /\ sn_out = NotCalled

NextSniff == Sniff

SpecSniff == InitSniff /\ [][NextSniff]_vars

---------------------------------------------------------------------------
(* Properties of download *)

Done(t) == pc[t] \in Terminal

Store == <<fs_dirs, fs_files>>

\* the entry a path names in the store as it is, or the path itself
Entry(p) == IF Real(fs_dirs, p).tag = "Some" THEN Real(fs_dirs, p).val ELSE p

\* The file a reference names: the path after image_url_prefix, under image_save_dir
Resolve(ref) == Entry(image_save_dir \o PathParts(SubSeq(ref, 3, Len(ref))))

\* what the look for a stored copy of url finds in a store
Look(dirs, files, url) ==
    IF Exists(dirs, files, parent_dir(url))
    THEN Glob(dirs, files, parent_dir(url), filename_uuid(url))
    ELSE {}

\* the stored copies a call's look finds in the store it began with
Found(t) == Look(fs0[t][1], fs0[t][2], image_url[t])

C2_Passthrough ==
    \A t \in Threads :
        (pc[t] # "idle" /\ ~StartsWith(image_url[t], <<Origin>>))
            => /\ fetches[t] = 0
               /\ Store = fs0[t]
               /\ pc[t] \in {"UNCHECKED", "PASSTHROUGH"}
               /\ Done(t) => result[t] = image_url[t]

C2_Witness ==
    /\ pc[Main] = "PASSTHROUGH"
    /\ image_url[Main] = <<"a", Origin>>
    /\ result[Main] = image_url[Main]
    /\ fs_files # {}

\* C3: no exception leaves download; a call in which one was raised (by the
\* fetch, the status check, mkdir, open, write or relative_to) returns the
\* locator it was given, and the crawler's loop goes on from there.
C3_FailuresCaught ==
    \A t \in Threads :
        /\ pc[t] # "raised"
        /\ (Done(t) /\ exc[t] # "none")
              => (pc[t] = "FAILED_RETURN_ORIGINAL" /\ result[t] = image_url[t])
        /\ pc[t] = "FAILED_RETURN_ORIGINAL" => ENABLED Assign

\* the image after a failed one is being processed
C3_Witness ==
    /\ pc[Main] = "UNCHECKED"
    /\ prev[Main].outcome = "FAILED_RETURN_ORIGINAL"
    /\ prev[Main].fetches = 1
    /\ images = <<prev[Main].url>>
    /\ remaining = 1

\* C4: when the fetch fails (timeout, connection error, error status) the
\* store is what it was when the call began: no file, no directory is created.
C4_FetchFailureLeavesStore ==
    \A t \in Threads :
        exc[t] \in {"Timeout", "ConnectionError", "HTTPError"} => Store = fs0[t]

C4_Witness ==
    /\ pc[Main] = "FAILED_RETURN_ORIGINAL"
    /\ exc[Main] = "Timeout"
    /\ fetches[Main] = 1
    /\ directory_path(image_url[Main]) # <<>>
    /\ result[Main] = image_url[Main]

\* C5 as stated: a result that differs from the locator names a file of the
\* store that holds all the bytes of the fetch that wrote it.
C5_NoPartialReference ==
    \A t \in Threads :
        (Done(t) /\ result[t] # image_url[t])
            => \E f \in fs_files : f.path = Resolve(result[t]) /\ f.data = f.of

\* C6 as stated: after a successful fetch with no stored copy before it, and
\* no error from mkdir, open or write, the bytes are in the file
\* image_save_dir/<directory_path>/<uuid5 of the last segment>.<format or bin>
\* and the result is image_url_prefix, "/" and that file's path under
\* image_save_dir.
C6_StoredUnderStoreRoot ==
    \A t \in Threads :
        (Done(t) /\ response[t].tag = "Some" /\ exc[t] # "OSError")
            => LET name == <<uuid5(original_filename(image_url[t]))>>
                               \o extension(img_format(t))
                   rel == PathParts(directory_path(image_url[t])) \o <<name>>
               IN /\ \E f \in fs_files :
                        /\ f.path = Entry(image_save_dir \o rel)
                        /\ f.data = response[t].val.content
                  /\ result[t] = <<image_url_prefix, "/">> \o Join(rel)

\* The states of the spec's per-call machine a call has been in
Abstract(labels) ==
    SelectSeq(labels, LAMBDA l : l \in {"UNCHECKED", "FETCHING"} \cup Terminal)

\* C10 as stated: a finished call went UNCHECKED -> PASSTHROUGH, UNCHECKED ->
\* ALREADY_STORED, UNCHECKED -> FETCHING -> STORED or UNCHECKED -> FETCHING ->
\* FAILED_RETURN_ORIGINAL; it issued at most one fetch, and one only for a
\* locator of the origin with no stored copy when the call began.
C10_PerCallMachine ==
    \A t \in Threads :
        /\ Done(t) =>
              Abstract(path[t]) \in
                  { <<"UNCHECKED", "PASSTHROUGH">>,
                    <<"UNCHECKED", "ALREADY_STORED">>,
                    <<"UNCHECKED", "FETCHING", "STORED">>,
                    <<"UNCHECKED", "FETCHING", "FAILED_RETURN_ORIGINAL">> }
        /\ fetches[t] <= 1
        /\ fetches[t] = 1 =>
              /\ StartsWith(image_url[t], <<Origin>>)
              /\ Glob(fs0[t][1], fs0[t][2], parent_dir(image_url[t]),
                      filename_uuid(image_url[t])) = {}

---------------------------------------------------------------------------
(* Properties of the stored files, calls made one after another *)

\* the ContentKey in a stored file's name, and files that share it
KeyOf(p) == p[Len(p)][1]
SameKey(p, q) == KeyOf(p) = KeyOf(q)
SameDirAndKey(p, q) == SameKey(p, q) /\ Parent(p) = Parent(q)

\* the files a step creates
Created == {f.path : f \in fs_files'} \ FilePaths(fs_files)

\* a step in which a call opens its destination
Opens(t) == pc[t] = "made" /\ pc'[t] = "opened"

\* C12 as stated: a file is created once per ContentKey: no step opens a
\* path that already exists, and no step creates a file while the store holds
\* a file of the same key, in whatever directory.
C12_OncePerKey ==
    [][/\ \A t \in Threads :
             Opens(t) => destination(t) \notin FilePaths(fs_files)
       /\ \A p \in Created : \A g \in fs_files : ~SameKey(p, g.path)]_vars

\* the locators of the source domain that the crawler can hand to download
Mirrored ==
    {u \in {IF StartsWith(src, <<"/">>) THEN urljoin(src) ELSE src : src \in Sources} :
        InSourceDomain(u)}

\* C12 amended: a file is opened once per ContentKey and directory as the
\* locator spells it: a call opens its destination only when its look in that
\* directory found no file of the key, after the step a look there finds
\* one, and a look that finds a file finds one ever after.
C12_OncePerDirectoryAndKey ==
    [][/\ \A t \in Threads :
             Opens(t) => /\ Found(t) = {}
                         /\ Look(fs_dirs', fs_files', image_url[t]) # {}
       /\ \A u \in Mirrored :
             Look(fs_dirs, fs_files, u) # {} => Look(fs_dirs', fs_files', u) # {}]_vars

\* two locators with one file name, each stored in its own directory
C12_Witness ==
    /\ pc[Main] = "STORED"
    /\ prev[Main].outcome = "STORED"
    /\ \E f, g \in fs_files :
          /\ SameKey(f.path, g.path)
          /\ Parent(f.path) # Parent(g.path)
          /\ Resolve(result[Main]) = f.path
          /\ Resolve(prev[Main].result) = g.path

\* C13 as stated: a stored file is never changed and never removed by a later call:
\* every file the store held when a call began, and after it returned, is
\* still there with the same content, whether the call stores, finds a copy,
\* passes the locator through or fails.
C13_StoredFilesKept ==
    \A t \in Threads : fs0[t][2] \subseteq fs_files

\* C15: nothing but the store passes from one call to the next.  What a
\* finished call returned and did is given by its locator, the store it
\* began with and the outcome of its fetch, whatever calls came before; and
\* downloaded_images stays empty.
C15_OnlyTheStorePersists ==
    /\ downloaded_images = {}
    /\ \A t \in Threads :
          Done(t) =>
            IF ~StartsWith(image_url[t], <<Origin>>)
            THEN pc[t] = "PASSTHROUGH" /\ result[t] = image_url[t] /\ Store = fs0[t]
            ELSE IF Found(t) # {}
            THEN /\ fetches[t] = 0
                 /\ Store = fs0[t]
                 /\ \E p \in Found(t) :
                       IF Reference(p).tag = "Raise"
                       THEN pc[t] = "FAILED_RETURN_ORIGINAL" /\ result[t] = image_url[t]
                       ELSE pc[t] = "ALREADY_STORED" /\ result[t] = Reference(p).val
            ELSE /\ fetches[t] = 1
                 /\ pc[t] \in {"STORED", "FAILED_RETURN_ORIGINAL"}
                 /\ response[t].tag = "None" =>
                       /\ exc[t] \in FetchErrors \cup {"HTTPError"}
                       /\ result[t] = image_url[t]
                       /\ Store = fs0[t]
                 /\ (response[t].tag = "Some" /\ exc[t] = "none") =>
                       LET p == local_file_path(image_url[t], img_format(t)) IN
                       /\ pc[t] = "STORED"
                       /\ result[t] = Reference(p).val
                       /\ fs_dirs = MkdirParents(fs0[t][1], Parent(p))
                       /\ fs_files = WriteFile(fs0[t][2], Real(fs_dirs, p).val,
                                               response[t].val.content,
                                               Len(response[t].val.content))
                 /\ pc[t] = "FAILED_RETURN_ORIGINAL" => result[t] = image_url[t]

\* a second call stores a file after a first call for another locator did:
\* its result is the one the store and its fetch give
C15_Witness ==
    /\ pc[Main] = "STORED"
    /\ prev[Main].outcome = "STORED"
    /\ prev[Main].url # image_url[Main]
    /\ Found(Main) = {}
    /\ fs0[Main][2] # {}
    /\ downloaded_images = {}

\* C16 as stated: with the calls made one after another from an empty store, the
\* store never holds two files named <ContentKey>.<anything> in one
\* directory, so the look for a stored copy finds at most one entry; also
\* when a fetch of the same locator failed before, or left a partial file.
C16_OneFilePerDirectoryAndKey ==
    /\ \A f, g \in fs_files : SameDirAndKey(f.path, g.path) => f = g
    /\ \A t \in Threads :
          pc[t] # "idle" =>
              Cardinality(Glob(fs_dirs, fs_files, parent_dir(image_url[t]),
                               filename_uuid(image_url[t]))) <= 1

---------------------------------------------------------------------------
(* Properties of download under parallel callers *)

\* t's call got as far as opening its destination file
Opened(t) == \E i \in 1..Len(path[t]) : path[t][i] = "opened"

\* two calls for one ContentKey and one directory
SameTarget(t, u) ==
    /\ pc[t] # "idle" /\ pc[u] # "idle"
    /\ filename_uuid(image_url[t]) = filename_uuid(image_url[u])
    /\ parent_dir(image_url[t]) = parent_dir(image_url[u])

\* Two calls for one target that both opened a destination ran concurrently:
\* had one returned before the other began, the other's look for a stored
\* copy would have found the file the first opened.
BothWrote(t, u) == t # u /\ SameTarget(t, u) /\ Opened(t) /\ Opened(u)

\* the files the store holds for the target of t's call
StoredFor(t) ==
    {f \in fs_files :
        f.path \in Glob(fs_dirs, fs_files, parent_dir(image_url[t]),
                        filename_uuid(image_url[t]))}

\* C11: when two concurrent calls for one ContentKey and directory both
\* missed the stored-copy check and both fetched and wrote, then once every
\* call has returned the store holds exactly one file for that key, the file
\* is complete, and every reference returned by either call or by a third call
\* for that target resolves to it.
C11_BenignRace ==
    (\A w \in Workers : pc[w] = "idle" \/ Done(w)) =>
        \A t, u \in Workers :
            BothWrote(t, u) =>
                /\ Cardinality(StoredFor(t)) = 1
                /\ \A f \in StoredFor(t) :
                      /\ f.data = f.of
                      /\ \A w \in Workers :
                            (SameTarget(w, t) /\ Done(w) /\ result[w] # image_url[w])
                                => Resolve(result[w]) = f.path

---------------------------------------------------------------------------
(* Properties of detect_format *)

Called == sn_out # NotCalled
Bytes(x) == IF x.tag = "Some" THEN x.val ELSE <<>>

\* The signature table of the specification, in the order it lists them
SigTags == <<jpeg, png, gif, webp, ico, bmp, tiff, svg, avif, heic>>
SigMatches(tag, d) ==
    CASE tag = jpeg -> StartsWith(d, <<255, 216, 255>>)
      [] tag = png -> StartsWith(d, <<137, 80, 78, 71, 13, 10, 26, 10>>)
      [] tag = gif -> StartsWith(d, <<71, 73, 70, 56, 55, 97>>)
                         \/ StartsWith(d, <<71, 73, 70, 56, 57, 97>>)
      [] tag = webp -> StartsWith(d, <<82, 73, 70, 70>>)
                          /\ Contains(SubSeq(d, 9, Min(12, Len(d))), <<87, 69, 66, 80>>)
      [] tag = ico -> StartsWith(d, <<0, 0, 1, 0>>) \/ StartsWith(d, <<0, 0, 2, 0>>)
      [] tag = bmp -> StartsWith(d, <<66, 77>>)
      [] tag = tiff -> StartsWith(d, <<73, 73, 42, 0>>) \/ StartsWith(d, <<77, 77, 0, 42>>)
      [] tag = svg -> StartsWith(d, <<60, 63, 120, 109, 108>>)
                         \/ StartsWith(d, <<60, 115, 118, 103>>)
      [] tag = avif -> Contains(SubSeq(d, 5, Min(12, Len(d))), FtypAvif)
      [] tag = heic -> Contains(SubSeq(d, 5, Min(12, Len(d))), FtypHeic)
                          \/ Contains(SubSeq(d, 5, Min(12, Len(d))), FtypMif1)
Matched(d) == {i \in 1..Len(SigTags) : SigMatches(SigTags[i], d)}
FirstListed(d) == SigTags[CHOOSE i \in Matched(d) : \A j \in Matched(d) : i <= j]

\* The keyword table of the specification, in its order
Keywords ==
    << <<jpeg, jpeg>>, <<<<"j","p","g">>, jpeg>>, <<png, png>>, <<gif, gif>>,
       <<webp, webp>>, <<bmp, bmp>>, <<tiff, tiff>>, <<<<"t","i","f">>, tiff>>,
       <<svg, svg>>, <<avif, avif>>, <<heic, heic>>, <<<<"h","e","i","f">>, heic>>,
       <<ico, ico>>, <<<<"i","c","o","n">>, ico>> >>
ContentType(resp) == Lower(HeadersGet(resp.val.headers, "content-type", <<>>))
Hits(ct) == {i \in 1..Len(Keywords) : Contains(ct, Keywords[i][1])}
FirstKeyword(ct) == Keywords[CHOOSE i \in Hits(ct) : \A j \in Hits(ct) : i <= j][2]

\* C7 as stated: for every signature the buffer matches, the result is that
\* signature's tag, whatever the metadata.
C7_TagOfEveryMatch ==
    Called => \A i \in Matched(Bytes(sn_data)) : sn_out = Some(SigTags[i])

\* C7 amended: when the buffer matches at least one signature the result is
\* the tag of the first signature, in the order listed, that it matches,
\* whatever the metadata and the decoder.
C7_TagOfFirstMatch ==
    (Called /\ Matched(Bytes(sn_data)) # {}) => sn_out = Some(FirstListed(Bytes(sn_data)))

\* PNG bytes, a header that says JPEG
C7_Witness ==
    /\ Called
    /\ SigMatches(png, Bytes(sn_data))
    /\ sn_resp.tag = "Some"
    /\ sn_resp.val.status_code = 200
    /\ Contains(ContentType(sn_resp), jpeg)
    /\ sn_out = Some(png)

\* Orders in which the signatures could be tested: the one the
\* specification lists, the one of the code, and the code's reversed
Orders ==
    { SigTags, CodeOrder, [i \in 1..Len(CodeOrder) |-> CodeOrder[Len(CodeOrder) + 1 - i]] }

\* the tags whose signature the buffer satisfies
Satisfied(d) == {CodeOrder[i] : i \in {j \in 1..Len(CodeOrder) : magic(CodeOrder[j], d)}}

\* the signatures that test the first bytes, and the two that test the brand
PrefixTags == {jpeg, webp, png, gif, ico, bmp, tiff, svg}
BrandTags == {avif, heic}

\* C14 as stated: no buffer satisfies the signatures of two formats, so
\* Method 1 returns the same tag in whatever order the signatures are tested.
C14_MutuallyExclusive ==
    Called =>
        /\ Cardinality(Satisfied(Bytes(sn_data))) <= 1
        /\ \A o \in Orders : Method1In(o, sn_data) = Method1(sn_data)

\* C14 amended: the signatures that test the first bytes exclude one another,
\* the two brand signatures exclude one another and webp, and only a brand
\* signature can hold together with a prefix signature; so Method 1 returns
\* the same tag in the order the specification lists and in the order of the
\* code, both of which test the brands last.
C14_SameInListedOrders ==
    Called =>
        /\ Cardinality(Satisfied(Bytes(sn_data)) \cap PrefixTags) <= 1
        /\ Cardinality(Satisfied(Bytes(sn_data)) \cap (BrandTags \cup {webp})) <= 1
        /\ Method1In(SigTags, sn_data) = Method1(sn_data)
        /\ Method1In(CodeOrder, sn_data) = Method1(sn_data)

\* an icon header followed by a HEIF brand: two signatures hold, ico is returned
C14_Witness ==
    /\ Called
    /\ Satisfied(Bytes(sn_data)) = {ico, heic}
    /\ Method1In(SigTags, sn_data) = Some(ico)
    /\ sn_out = Some(ico)

\* C8 as stated: when no signature matches and a response is given, the
\* result is the tag of the first keyword of the table found in the
\* lowercased Content-Type, if any is found.
C8_FirstKeywordOfHeader ==
    (Called /\ Matched(Bytes(sn_data)) = {} /\ sn_resp.tag = "Some")
        => (Hits(ContentType(sn_resp)) # {}
               => sn_out = Some(FirstKeyword(ContentType(sn_resp))))

\* no method of the cascade has a match for the input
NoMatch ==
    /\ Matched(Bytes(sn_data)) = {}
    /\ \/ sn_resp.tag = "None"
       \/ RaisesForStatus(sn_resp.val)
       \/ Hits(ContentType(sn_resp)) = {}
    /\ \/ Bytes(sn_data) = <<>>
       \/ sn_pil.tag = "Raise"
       \/ ~TruthySeq(sn_pil)

\* C9: detect_format returns a tag or None and never raises; it returns None
\* with no bytes and no response, and whenever no method has a match, a
\* decoder that raises included.
C9_NeverRaises ==
    Called =>
        /\ sn_out.tag \in {"None", "Some"}
        /\ (Bytes(sn_data) = <<>> /\ sn_resp.tag = "None") => sn_out = None
        /\ NoMatch => sn_out = None

\* bytes no method knows, and a decoder that raises on them
C9_Witness ==
    /\ Called
    /\ Bytes(sn_data) # <<>>
    /\ Matched(Bytes(sn_data)) = {}
    /\ sn_resp.tag = "Some"
    /\ sn_pil.tag = "Raise"
    /\ sn_out = None

=============================================================================
